---- MODULE Spec2Model ----
(***************************************************************************)
(* Model of phonemizer/punctuation.py: the Punctuation class, its marks    *)
(* setter, remove, preserve / _preserve_line and restore / _restore_aux.   *)
(*                                                                         *)
(* A Python str is a sequence of one-character strings, a list of lines a  *)
(* sequence of such sequences.  The text alphabet is Chars; the marks a    *)
(* caller may configure are drawn from MarkChars, characters that have no  *)
(* special meaning inside a regular-expression character class and are not *)
(* whitespace.                                                             *)
(***************************************************************************)
EXTENDS Integers, Sequences, FiniteSets, TLC

\* ------------------------------------------------------------------ bounds
MaxChars == 5       \* total number of characters of an input text
MaxLines == 2       \* number of lines of an input text
MaxCfgChars == 3    \* the same two, for the runs that also vary the marks
MaxCfgLines == 1
MaxMarksLen == 2    \* length of a string assigned to Punctuation.marks
MaxRChunks == 2     \* restore on arbitrary input: number of chunks,
MaxRMarks == 2      \*   number of mark records,
MaxRIndex == 1      \*   largest line index of a mark record

Chars == {"a", " ", ","}
Whitespace == {" "}
MarkChars == {",", "!"}
Positions == {"B", "E", "A", "I"}

\* ------------------------------------------------------------ str helpers
Range(s) == {s[i] : i \in 1..Len(s)}

Min(S) == CHOOSE x \in S : \A y \in S : x <= y

RECURSIVE SkipWhile(_, _, _)
\* the first index >= i of line whose character is not in S
SkipWhile(line, i, S) ==
    IF i <= Len(line) /\ line[i] \in S THEN SkipWhile(line, i + 1, S) ELSE i

\* str.find, 1-based, 0 when sub does not occur
find(line, sub) ==
    LET at == {i \in 1..(Len(line) - Len(sub) + 1) :
                  SubSeq(line, i, i + Len(sub) - 1) = sub}
    IN IF at = {} THEN 0 ELSE Min(at)

RECURSIVE split(_, _)
\* str.split(sep) with a non-empty separator
split(line, sep) ==
    LET i == find(line, sep)
    IN IF i = 0 THEN <<line>>
       ELSE <<SubSeq(line, 1, i - 1)>>
            \o split(SubSeq(line, i + Len(sep), Len(line)), sep)

RECURSIVE join(_, _)
\* sep.join(list)
join(sep, list) ==
    IF list = <<>> THEN <<>>
    ELSE IF Len(list) = 1 THEN list[1]
    ELSE list[1] \o sep \o join(sep, Tail(list))

startswith(line, pre) ==
    Len(pre) <= Len(line) /\ SubSeq(line, 1, Len(pre)) = pre

endswith(line, suf) ==
    Len(suf) <= Len(line)
    /\ SubSeq(line, Len(line) - Len(suf) + 1, Len(line)) = suf

\* str.strip()
strip(line) ==
    LET keep == {i \in 1..Len(line) : line[i] \notin Whitespace}
    IN IF keep = {} THEN <<>>
       ELSE SubSeq(line, Min(keep), CHOOSE x \in keep : \A y \in keep : y <= x)

\* ''.join(set(value)): the distinct characters, in the set's iteration order,
\* which the language leaves open
set_join(value) ==
    {p \in [1..Cardinality(Range(value)) -> Range(value)] : Range(p) = Range(value)}

\* ----------------------------------------------------------------- regex
\* re.compile(fr'\s*[{marks}]+\s*'): with no character between the brackets
\* the pattern is r'\s*[]+\s*', an unterminated character set (re.error);
\* otherwise the compiled pattern is determined by its character class
re_compile(marks) ==
    IF marks = <<>> THEN [ok |-> FALSE, class |-> {}]
    ELSE [ok |-> TRUE, class |-> Range(marks)]

\* one attempt of \s*[class]+\s* at index i; the class holds no whitespace,
\* so giving back whitespace never turns a failed attempt into a match
match_at(class, line, i) ==
    LET a == SkipWhile(line, i, Whitespace)
        b == SkipWhile(line, a, class)
        c == SkipWhile(line, b, Whitespace)
    IN [ok |-> b > a, start |-> i, stop |-> c]

RECURSIVE finditer_from(_, _, _)
finditer_from(class, line, i) ==
    IF i > Len(line) THEN <<>>
    ELSE LET m == match_at(class, line, i)
         IN IF m.ok
            THEN <<[start |-> m.start, stop |-> m.stop]>>
                 \o finditer_from(class, line, m.stop)
            ELSE finditer_from(class, line, i + 1)

\* list(re.finditer(self._marks_re, line)): the matches, left to right;
\* start is the index of the first character, stop the index after the last
finditer(class, line) == finditer_from(class, line, 1)

\* m.group()
group(line, m) == SubSeq(line, m.start, m.stop - 1)

RECURSIVE re_sub_from(_, _, _, _)
re_sub_from(class, repl, line, i) ==
    IF i > Len(line) THEN <<>>
    ELSE LET m == match_at(class, line, i)
         IN IF m.ok THEN repl \o re_sub_from(class, repl, line, m.stop)
            ELSE <<line[i]>> \o re_sub_from(class, repl, line, i + 1)

\* re.sub(self._marks_re, repl, line)
re_sub(class, repl, line) == re_sub_from(class, repl, line, 1)

\* ------------------------------------------------------------ input sets
StrsOfLen(k) == [1..k -> Chars]

RECURSIVE TextsWithin(_, _)
\* the lists of at most `lines` lines holding at most `chars` characters
TextsWithin(lines, chars) ==
    {<<>>} \cup
    (IF lines = 0 THEN {}
     ELSE UNION {{<<s>> \o t : s \in StrsOfLen(k),
                               t \in TextsWithin(lines - 1, chars - k)} :
                 k \in 0..chars})

Texts == TextsWithin(MaxLines, MaxChars)
CfgTexts == TextsWithin(MaxCfgLines, MaxCfgChars)

\* the values a caller assigns to Punctuation.marks: a str, or something else
MarkValues ==
    {[isstr |-> FALSE, s |-> <<>>]} \cup
    {[isstr |-> TRUE, s |-> v] :
        v \in UNION {[1..k -> MarkChars] : k \in 0..MaxMarksLen}}

\* _DEFAULT_MARKS, restricted to the marks of MarkChars
_DEFAULT_MARKS == <<",", "!">>

\* the _mark_index records handed to restore by an arbitrary caller
ArbMarkRecords ==
    [index : 0..MaxRIndex, mark : {<<",">>}, position : Positions]
ArbMarks == UNION {[1..k -> ArbMarkRecords] : k \in 0..MaxRMarks}
ArbChunks == UNION {[1..k -> {<<>>, <<"a">>}] : k \in 0..MaxRChunks}

\* ------------------------------------------------------------------ state
VARIABLES
    constructed,      \* a Punctuation object exists
    value,            \* <<v>>: v is the value last assigned to marks
    _marks,           \* self._marks
    _marks_re,        \* self._marks_re, as the character class it matches
    err,              \* the exception the last call raised, or "none"
    pc,               \* the caller's position
    text,             \* the lines given to preserve or remove
    n,                \* preserve: the loop index
    cur_line,         \* preserve: `line` returned by _preserve_line
    cur_marks,        \* preserve: `marks` returned by _preserve_line
    preserved_text,   \* preserve: the chunks so far, empty ones included
    preserved_marks,  \* preserve: the marks so far
    preserved_orig,   \* for each chunk of preserved_text, the line it is from
    chunks,           \* preserve's return value, the chunks
    pmarks,           \* preserve's return value, the marks
    chunk_orig,       \* for each returned chunk, the line it is from
    rtext,            \* _restore_aux: text
    rmarks,           \* _restore_aux: marks
    rn,               \* _restore_aux: n
    racc,             \* _restore_aux: the lines the pending frames prepend
    rorig,            \* for each element of rtext, the lines it is made from
    result,           \* restore's return value
    rm_shape,         \* remove: "str" or "list", the type of its argument
    rm_out,           \* remove(text)
    rm_out2           \* remove(remove(text))

obj_vars == <<constructed, _marks, _marks_re>>
pres_vars == <<n, cur_line, cur_marks, preserved_text, preserved_marks,
               preserved_orig, chunks, pmarks, chunk_orig>>
rest_vars == <<rtext, rmarks, rn, racc, rorig, result>>
rm_vars == <<rm_shape, rm_out, rm_out2>>
vars == <<obj_vars, value, err, pc, text, pres_vars, rest_vars, rm_vars>>

\* ------------------------------------------------------- the marks setter
\* Punctuation.marks setter: the states it can leave the object in, from
\* (old_marks, old_re), with the exception raised
marks_setter(old_marks, old_re, v) ==
    IF ~v.isstr
    THEN {[marks |-> old_marks, re |-> old_re, err |-> "ValueError"]}
    ELSE {LET c == re_compile(joined)
          IN IF c.ok
             THEN [marks |-> joined, re |-> c.class, err |-> "none"]
             ELSE [marks |-> joined, re |-> old_re, err |-> "re.error"] :
          joined \in set_join(v.s)}

\* Punctuation(marks=value): __init__ runs the setter; when it raises, the
\* caller gets no object
Construct ==
    /\ pc = "idle"
    /\ ~constructed
    /\ \E v \in MarkValues :
         \E o \in marks_setter(<<>>, {}, v) :
            /\ value' = <<v>>
            /\ err' = o.err
            /\ IF o.err = "none"
               THEN /\ constructed' = TRUE
                    /\ _marks' = o.marks
                    /\ _marks_re' = o.re
               ELSE UNCHANGED obj_vars
    /\ UNCHANGED <<pc, text, pres_vars, rest_vars, rm_vars>>

\* p.marks = value on an existing object
SetMarks ==
    /\ pc = "idle"
    /\ constructed
    /\ \E v \in MarkValues :
         \E o \in marks_setter(_marks, _marks_re, v) :
            /\ value' = <<v>>
            /\ err' = o.err
            /\ _marks' = o.marks
            /\ _marks_re' = o.re
    /\ UNCHANGED <<constructed, pc, text, pres_vars, rest_vars, rm_vars>>

\* --------------------------------------------------------------- preserve
\* position_of without the test that the match is the last one
position_of_any_end(line, matches, k) ==
    IF k = 1 /\ startswith(line, group(line, matches[k])) THEN "B"
    ELSE IF endswith(line, group(line, matches[k])) THEN "E"
    ELSE "I"

\* _preserve_line, lines 117-121: the position of the k-th match
position_of(line, matches, k) ==
    IF k = 1 /\ startswith(line, group(line, matches[k])) THEN "B"
    ELSE IF k = Len(matches) /\ endswith(line, group(line, matches[k])) THEN "E"
    ELSE "I"

\* _preserve_line, lines 113-122: the _mark_index records of the line
mark_indexes(line, matches, k) ==
    [i \in 1..Len(matches) |->
        [index |-> k, mark |-> group(line, matches[i]),
         position |-> position_of(line, matches, i)]]

RECURSIVE split_line_last(_, _)
\* split_line keeping only the last piece of the split as the suffix
split_line_last(line, marks) ==
    IF marks = <<>> THEN <<line>>
    ELSE LET sp == split(line, Head(marks).mark)
             prefix == sp[1]
             suffix == sp[Len(sp)]
         IN <<prefix>> \o split_line_last(suffix, Tail(marks))

RECURSIVE split_line(_, _)
\* _preserve_line, lines 125-133: preserved_line + [line]
split_line(line, marks) ==
    IF marks = <<>> THEN <<line>>
    ELSE LET sp == split(line, Head(marks).mark)
             prefix == sp[1]
             suffix == join(Head(marks).mark, Tail(sp))
         IN <<prefix>> \o split_line(suffix, Tail(marks))

\* _preserve_line without the case of a line made only of punctuation
_preserve_line_no_alone(class, line, k) ==
    LET matches == finditer(class, line)
    IN IF matches = <<>> THEN [line |-> <<line>>, marks |-> <<>>]
       ELSE LET marks == mark_indexes(line, matches, k)
            IN [line |-> split_line(line, marks), marks |-> marks]

\* Punctuation._preserve_line(line, n), with self._marks_re = class
_preserve_line(class, line, k) ==
    LET matches == finditer(class, line)
    IN IF matches = <<>> THEN [line |-> <<line>>, marks |-> <<>>]
       ELSE IF Len(matches) = 1 /\ group(line, matches[1]) = line
       THEN [line |-> <<>>,
             marks |-> <<[index |-> k, mark |-> line, position |-> "A"]>>]
       ELSE LET marks == mark_indexes(line, matches, k)
            IN [line |-> split_line(line, marks), marks |-> marks]

RECURSIVE keep_where(_, _)
\* the elements of s whose element of `of` is not the empty string
keep_where(s, of) ==
    IF s = <<>> THEN <<>>
    ELSE (IF Head(of) /= <<>> THEN <<Head(s)>> ELSE <<>>)
         \o keep_where(Tail(s), Tail(of))

\* preserve returning preserved_text unfiltered
keep_all(lines) == lines

\* preserve, line 100: [line for line in preserved_text if line]
non_empty(lines) == keep_where(lines, lines)

\* preserve(text), lines 92-94; text is a list of lines, which str2list
\* returns as it is
PreserveCall ==
    /\ pc = "idle"
    /\ constructed
    /\ pc' = "preserve"
    /\ err' = "none"
    /\ n' = 0
    /\ preserved_text' = <<>>
    /\ preserved_marks' = <<>>
    /\ preserved_orig' = <<>>
    /\ UNCHANGED <<obj_vars, value, text, cur_line, cur_marks, chunks, pmarks,
                   chunk_orig, rest_vars, rm_vars>>

\* preserve, lines 96-99: one iteration of the loop
PreserveLine ==
    /\ pc = "preserve"
    /\ n < Len(text)
    /\ LET r == _preserve_line(_marks_re, text[n + 1], n)
       IN /\ cur_line' = r.line
          /\ cur_marks' = r.marks
          /\ preserved_text' = preserved_text \o r.line
          /\ preserved_marks' = preserved_marks \o r.marks
          /\ preserved_orig' = preserved_orig \o [i \in 1..Len(r.line) |-> n]
    /\ n' = n + 1
    /\ UNCHANGED <<obj_vars, value, err, pc, text, chunks, pmarks, chunk_orig,
                   rest_vars, rm_vars>>

\* preserve, line 100: the return
PreserveReturn ==
    /\ pc = "preserve"
    /\ n = Len(text)
    /\ chunks' = non_empty(preserved_text)
    /\ pmarks' = preserved_marks
    /\ chunk_orig' = keep_where(preserved_orig, preserved_text)
    /\ pc' = "preserved"
    /\ UNCHANGED <<obj_vars, value, err, text, n, cur_line, cur_marks, preserved_text,
                   preserved_marks, preserved_orig, rest_vars, rm_vars>>

\* ---------------------------------------------------------------- restore
\* an IndexError swallowed: the frame returns the text it has
index_error_swallowed(txt, marks, k) ==
    [kind |-> "return", op |-> "return", emit |-> txt,
     text |-> <<>>, marks |-> marks, n |-> k]

\* text[0] or text[1] on a list too short: IndexError leaves the frame
index_error(txt, marks, k) ==
    [kind |-> "raise", op |-> "raise", emit |-> <<>>,
     text |-> txt, marks |-> marks, n |-> k]

\* one frame of Punctuation._restore_aux(text, marks, n): it returns `text`
\* (kind "return"), raises IndexError on text[0] or text[1] (kind "raise"), or
\* calls itself on (text, marks, n) and prepends `emit` to what that call
\* returns (kind "recurse"); op names the branch taken
_restore_aux(txt, marks, k) ==
    LET raise == index_error(txt, marks, k)
        m == Head(marks)
    IN IF Len(marks) = 0
       THEN [kind |-> "return", op |-> "return", emit |-> txt,
             text |-> <<>>, marks |-> marks, n |-> k]
       ELSE IF m.index = k
       THEN IF m.position = "B"
            THEN IF Len(txt) < 1 THEN raise
                 ELSE [kind |-> "recurse", op |-> "B", emit |-> <<>>,
                       text |-> <<m.mark \o txt[1]>> \o Tail(txt),
                       marks |-> Tail(marks), n |-> k]
            ELSE IF m.position = "E"
            THEN IF Len(txt) < 1 THEN raise
                 ELSE [kind |-> "recurse", op |-> "E",
                       emit |-> <<txt[1] \o m.mark>>, text |-> Tail(txt),
                       marks |-> Tail(marks), n |-> k + 1]
            ELSE IF m.position = "A"
            THEN [kind |-> "recurse", op |-> "A", emit |-> <<m.mark>>,
                  text |-> txt, marks |-> Tail(marks), n |-> k + 1]
            ELSE IF Len(txt) < 2 THEN raise
                 ELSE [kind |-> "recurse", op |-> "I", emit |-> <<>>,
                       text |-> <<txt[1] \o m.mark \o txt[2]>>
                                \o Tail(Tail(txt)),
                       marks |-> Tail(marks), n |-> k]
       ELSE IF Len(txt) < 1 THEN raise
            ELSE [kind |-> "recurse", op |-> "skip", emit |-> <<txt[1]>>,
                  text |-> Tail(txt), marks |-> marks, n |-> k + 1]

\* the lines the elements of the new text are made from: the merge of line 166
\* joins two elements, lines 160 and 168 drop the first
orig_after(orig, op) ==
    IF op = "I" THEN <<orig[1] \cup orig[2]>> \o Tail(Tail(orig))
    ELSE IF op \in {"E", "skip"} THEN Tail(orig)
    ELSE orig

\* Punctuation.restore(text, marks) on what preserve returned
RestoreCall ==
    /\ pc = "preserved"
    /\ pc' = "restore"
    /\ rtext' = chunks
    /\ rmarks' = pmarks
    /\ rn' = 0
    /\ racc' = <<>>
    /\ rorig' = [i \in 1..Len(chunks) |-> {chunk_orig[i]}]
    /\ UNCHANGED <<obj_vars, value, err, text, pres_vars, result, rm_vars>>

\* one call of _restore_aux
RestoreStep ==
    /\ pc = "restore"
    /\ LET r == _restore_aux(rtext, rmarks, rn)
       IN /\ pc' = CASE r.kind = "return" -> "restored"
                     [] r.kind = "raise" -> "raised"
                     [] OTHER -> "restore"
          /\ err' = IF r.kind = "raise" THEN "IndexError" ELSE err
          /\ result' = IF r.kind = "return" THEN racc \o r.emit ELSE result
          /\ racc' = IF r.kind = "recurse" THEN racc \o r.emit ELSE racc
          /\ rtext' = r.text
          /\ rmarks' = r.marks
          /\ rn' = r.n
          /\ rorig' = orig_after(rorig, r.op)
    /\ UNCHANGED <<obj_vars, value, text, pres_vars, rm_vars>>

\* ----------------------------------------------------------------- remove
\* aux without the strip()
aux_no_strip(class, line) == re_sub(class, <<" ">>, line)

\* remove, lines 76-77: aux(text)
aux(class, line) == strip(re_sub(class, <<" ">>, line))

\* Punctuation.remove(text): a str argument is one line, and so is the result
remove(class, lines) == [i \in 1..Len(lines) |-> aux(class, lines[i])]

Remove ==
    /\ pc = "idle"
    /\ constructed
    /\ \E shape \in {"str", "list"} :
         /\ shape = "str" => Len(text) = 1
         /\ rm_shape' = shape
    /\ rm_out' = remove(_marks_re, text)
    /\ pc' = "removed"
    /\ err' = "none"
    /\ UNCHANGED <<obj_vars, value, text, pres_vars, rest_vars, rm_out2>>

\* remove applied to what remove returned
RemoveAgain ==
    /\ pc = "removed"
    /\ rm_out2' = remove(_marks_re, rm_out)
    /\ pc' = "removed2"
    /\ UNCHANGED <<obj_vars, value, err, text, pres_vars, rest_vars, rm_shape, rm_out>>

\* --------------------------------------------------------- specifications
NoCall ==
    /\ err = "none"
    /\ n = 0
    /\ cur_line = <<>> /\ cur_marks = <<>>
    /\ preserved_text = <<>> /\ preserved_marks = <<>> /\ preserved_orig = <<>>
    /\ chunks = <<>> /\ pmarks = <<>> /\ chunk_orig = <<>>
    /\ rtext = <<>> /\ rmarks = <<>> /\ rn = 0 /\ racc = <<>> /\ rorig = <<>>
    /\ result = <<>>
    /\ rm_shape = "list" /\ rm_out = <<>> /\ rm_out2 = <<>>

\* p = Punctuation(), and a text to give it
Init ==
    /\ constructed = TRUE
    /\ value = <<[isstr |-> TRUE, s |-> _DEFAULT_MARKS]>>
    /\ _marks \in set_join(_DEFAULT_MARKS)
    /\ _marks_re = re_compile(_marks).class
    /\ pc = "idle"
    /\ text \in Texts
    /\ NoCall

Next ==
    \/ PreserveCall
    \/ PreserveLine
    \/ PreserveReturn
    \/ RestoreCall
    \/ RestoreStep

Spec == Init /\ [][Next]_vars

\* no object yet: the caller constructs one, may assign its marks, then calls
InitMarks ==
    /\ constructed = FALSE
    /\ value = <<>>
    /\ _marks = <<>>
    /\ _marks_re = {}
    /\ pc = "idle"
    /\ text \in CfgTexts
    /\ NoCall

NextMarks ==
    \/ Construct
    \/ SetMarks
    \/ Remove
    \/ RemoveAgain
    \/ PreserveCall
    \/ PreserveLine
    \/ PreserveReturn

SpecMarks == InitMarks /\ [][NextMarks]_vars

\* restore(text, marks) called on arbitrary chunks and mark records
InitRestore ==
    /\ constructed = FALSE
    /\ value = <<>>
    /\ _marks = <<>>
    /\ _marks_re = {}
    /\ text = <<>>
    /\ err = "none"
    /\ n = 0
    /\ cur_line = <<>> /\ cur_marks = <<>>
    /\ preserved_text = <<>> /\ preserved_marks = <<>> /\ preserved_orig = <<>>
    /\ chunks = <<>> /\ pmarks = <<>> /\ chunk_orig = <<>>
    /\ pc = "restore"
    /\ rtext \in ArbChunks
    /\ rmarks \in ArbMarks
    /\ rn = 0
    /\ racc = <<>>
    /\ rorig = [i \in 1..Len(rtext) |-> {}]
    /\ result = <<>>
    /\ rm_shape = "list" /\ rm_out = <<>> /\ rm_out2 = <<>>

NextRestore == RestoreStep

\* a call that has started runs on: the interpreter executes the next frame
SpecRestore == InitRestore /\ [][NextRestore]_vars /\ WF_vars(RestoreStep)

\* ------------------------------------------------------------ properties
\* the match that is a whole line: a line made of one punctuation run
IsIsolated(class, line) ==
    LET matches == finditer(class, line)
    IN Len(matches) = 1 /\ matches[1].start = 1 /\ matches[1].stop = Len(line) + 1

\* a line with matches that is not one punctuation run
IsPunctuated(class, line) ==
    finditer(class, line) /= <<>> /\ ~IsIsolated(class, line)

\* preserve has just processed the line JustDone, which has index n - 1
AfterLine == pc = "preserve" /\ n >= 1
JustDone == text[n]

RECURSIVE Interleave(_, _)
\* chunk0, mark_text1, chunk1, ..., mark_textk, chunkk
Interleave(chs, mks) ==
    IF mks = <<>> THEN chs[1]
    ELSE chs[1] \o mks[1].mark \o Interleave(Tail(chs), Tail(mks))

LeadingSpace(str) == str /= <<>> /\ str[1] \in Whitespace
TrailingSpace(str) == str /= <<>> /\ str[Len(str)] \in Whitespace

\* C1: restore applied to what preserve returned for the lines `text`
\* completes and returns exactly `text`.
RoundTrip ==
    pc \in {"restored", "raised"} => pc = "restored" /\ result = text

\* C2: the marks preserve records for line k carry line_index k, and restore
\* splices a mark of line k only into chunks that come from line k.
LineIndexSync ==
    /\ AfterLine => \A i \in 1..Len(cur_marks) : cur_marks[i].index = n - 1
    /\ (pc = "restore" /\ rmarks /= <<>> /\ Head(rmarks).index = rn) =>
          LET m == Head(rmarks)
          IN /\ (m.position \in {"B", "E"} /\ Len(rtext) >= 1)
                   => rorig[1] \subseteq {m.index}
             /\ (m.position = "I" /\ Len(rtext) >= 2)
                   => rorig[1] \cup rorig[2] \subseteq {m.index}

\* C3 (in a state): a line that is one punctuation run gives no chunk and the
\* single mark (k, line, 'A'), in _preserve_line's return value and in
\* preserve's; and when restore returns, line k of its result is that line.
IsolatedState ==
    /\ (AfterLine /\ IsIsolated(_marks_re, JustDone)) =>
          /\ cur_line = <<>>
          /\ cur_marks =
                <<[index |-> n - 1, mark |-> JustDone, position |-> "A"]>>
    /\ pc \in {"preserved", "restore", "restored", "raised"} =>
          \A k \in 1..Len(text) : IsIsolated(_marks_re, text[k]) =>
             /\ \A i \in 1..Len(chunks) : chunk_orig[i] /= k - 1
             /\ \E i \in 1..Len(pmarks) :
                   /\ pmarks[i] =
                         [index |-> k - 1, mark |-> text[k], position |-> "A"]
                   /\ \A j \in 1..Len(pmarks) :
                         pmarks[j].index = k - 1 => j = i
    /\ pc = "restored" =>
          \A k \in 1..Len(text) : IsIsolated(_marks_re, text[k]) =>
             Len(result) >= k /\ result[k] = text[k]

\* C3 (in a step): restore, at an 'A' mark of the current line, emits the
\* mark_text as a line of its own, keeps every chunk and adds one to n.
IsolatedStep ==
    (pc = "restore" /\ rmarks /= <<>> /\ Head(rmarks).index = rn
        /\ Head(rmarks).position = "A") =>
       /\ pc' = "restore"
       /\ racc' = Append(racc, Head(rmarks).mark)
       /\ rtext' = rtext
       /\ rmarks' = Tail(rmarks)
       /\ rn' = rn + 1

\* C3: the isolated-line property.
IsolatedLine == []IsolatedState /\ [][IsolatedStep]_vars

IsolatedLineWitness ==
    /\ pc = "restored"
    /\ Len(text) >= 2
    /\ IsIsolated(_marks_re, text[2])
    /\ ~IsIsolated(_marks_re, text[1])
    /\ result = text

EmptyAlphabet ==
    /\ value = <<[isstr |-> TRUE, s |-> <<>>]>> => err = "none" /\ constructed
    /\ (pc = "preserved" /\ _marks = <<>>) => chunks = text /\ pmarks = <<>>

\* C6 (in a state): a failure returns no line, a result means no mark is left.
RestoreOutcome ==
    /\ pc = "raised" => result = <<>> /\ err = "IndexError"
    /\ pc = "restored" => rmarks = <<>> /\ err = "none"

\* the walk needs a chunk that is not there
NeedsMissingChunk ==
    /\ pc = "restore"
    /\ rmarks /= <<>>
    /\ LET m == Head(rmarks)
       IN \/ m.index = rn /\ m.position \in {"B", "E"} /\ Len(rtext) = 0
          \/ m.index = rn /\ m.position = "I" /\ Len(rtext) < 2
          \/ m.index /= rn /\ Len(rtext) = 0

\* C6 (in a step): such a walk ends there, in a failure without output.
RestoreFails == NeedsMissingChunk => pc' = "raised" /\ result' = <<>>

\* C6: restore on arbitrary chunks and marks terminates; it fails, returning
\* nothing, whenever a chunk it needs is missing, and a mark that the line
\* counter has passed makes it fail.
RestoreTotal ==
    /\ []RestoreOutcome
    /\ [][RestoreFails]_vars
    /\ (pc = "restore") ~> (pc \in {"restored", "raised"})
    /\ (pc = "restore" /\ rmarks /= <<>> /\ Head(rmarks).index < rn)
          ~> (pc = "raised")

RestoreTotalWitness ==
    /\ pc = "raised"
    /\ racc /= <<>>
    /\ rmarks /= <<>>
    /\ Head(rmarks).position = "I"
    /\ Len(rtext) = 1

\* C7: in a punctuated line the i-th mark is the i-th match, tagged 'B' when
\* it is the first match and starts the line, else 'E' when it is the last
\* match and ends the line, else 'I'.
PositionClassification ==
    (AfterLine /\ IsPunctuated(_marks_re, JustDone)) =>
       LET matches == finditer(_marks_re, JustDone)
       IN /\ Len(cur_marks) = Len(matches)
          /\ \A i \in 1..Len(matches) :
                /\ cur_marks[i].mark = group(JustDone, matches[i])
                /\ cur_marks[i].index = n - 1
                /\ cur_marks[i].position =
                      IF i = 1 /\ matches[i].start = 1 THEN "B"
                      ELSE IF i = Len(matches)
                              /\ matches[i].stop = Len(JustDone) + 1 THEN "E"
                      ELSE "I"
          /\ \A i \in 1..Len(cur_marks) :
                /\ cur_marks[i].position = "B" => i = 1
                /\ cur_marks[i].position = "E" => i = Len(cur_marks)
                /\ cur_marks[i].position /= "A"

PositionClassificationWitness ==
    /\ AfterLine
    /\ Len(cur_marks) = 3
    /\ cur_marks[1].position = "B"
    /\ cur_marks[2].position = "I"
    /\ cur_marks[3].position = "E"

\* C8: a punctuated line with k matches splits into k+1 chunks, the chunks
\* and mark texts interleaved are the line, and no chunk starts or ends with
\* whitespace where it touches a mark.
LosslessSplit ==
    (AfterLine /\ IsPunctuated(_marks_re, JustDone)) =>
       /\ Len(cur_line) = Len(finditer(_marks_re, JustDone)) + 1
       /\ Len(cur_line) = Len(cur_marks) + 1
       /\ Interleave(cur_line, cur_marks) = JustDone
       /\ \A i \in 1..Len(cur_marks) :
             /\ ~TrailingSpace(cur_line[i])
             /\ ~LeadingSpace(cur_line[i + 1])
             /\ Range(cur_line[i]) \cap _marks_re = {}
             /\ Range(cur_line[i + 1]) \cap _marks_re = {}

LosslessSplitWitness ==
    /\ AfterLine
    /\ JustDone = <<"a", " ", ",", " ", "a">>
    /\ cur_line = <<<<"a">>, <<"a">>>>
    /\ Len(cur_marks) = 1
    /\ cur_marks[1].mark = <<" ", ",", " ">>

MatcherConsistent ==
    constructed =>
       /\ re_compile(_marks).ok
       /\ _marks_re = re_compile(_marks).class

====
